---- MODULE Spec2Model ----
(***************************************************************************)
(* Real-time audio segmentation and session protocol engine of             *)
(* davidbmar/nvidia-parakeet:                                              *)
(*   websocket/audio_processor.py      AudioProcessor      (Segmenter)     *)
(*   websocket/transcription_stream.py TranscriptionStream (Session)       *)
(*   websocket/websocket_handler.py    WebSocketHandler    (Manager)       *)
(*                                                                         *)
(* One connection is modelled, from the state connect() leaves behind.     *)
(* Every action is the handling of one inbound frame by handle_message,    *)
(* from the receive to the last send of that frame.                        *)
(*                                                                         *)
(* Units.  One model sample stands for one nominal chunk of the source     *)
(* (100 ms, 1600 samples at 16 kHz), so the sample rate is 10 samples per  *)
(* second.  Times are integers in milliseconds, which is the precision of  *)
(* round(x, 3) in the source.  Energies and VAD thresholds are in          *)
(* thousandths of full scale.  The segment buffer is kept as its number    *)
(* of samples: no decision of the code reads a sample's value once the     *)
(* chunk's energy is known.                                                *)
(***************************************************************************)
EXTENDS Integers, Sequences, FiniteSets, TLC

\* ---------------------------------------------------------------- constants

\* sample_rate=16000 of process_chunk / transcribe_segment, in model samples/s
SAMPLE_RATE == 10
\* chunk_duration_ms default
CHUNK_DURATION_MS == 100
\* silence_duration_s default (0.5 s), in milliseconds
SILENCE_DURATION_MS == 500
\* vad_threshold default (0.01), in thousandths
VAD_THRESHOLD == 10
\* "> 16000" of _handle_audio_data: a partial needs more than one second
PARTIAL_MIN_SAMPLES == 10
\* round(x, 3): times are kept in 1/1000 s
MS_PER_S == 1000

\* ------------------------------------------------------------------- bounds

\* max_segment_duration_s (10 s in the source), in nominal chunks of 100 ms
MaxSegmentChunks == 12
\* longest chunk of a client that sends short chunks, in samples
MaxChunkSamples == 2
\* the chunk of a client that sends long chunks, in samples
LongChunkSamples == 11
\* final segments per recording
MaxSegments == 2
\* final segments per connection (state['total_segments'])
MaxTotalSegments == 2
\* value at which the silence counter stops being driven further
MaxSilenceCounter == 6
\* voiced chunks and silent chunks a scripted client feeds
MaxScriptVoiced == 7
MaxScriptSilent == 10

\* ------------------------------------------------------------------ helpers

NoId == 0 - 1

Max(a, b) == IF a >= b THEN a ELSE b

\* ceil(num / den) for num >= 0, den > 0
CeilDiv(num, den) == (num + den - 1) \div den

\* Python round(): nearest integer to num/den, ties to the even one.
RoundHalfEven(num, den) ==
    LET q == num \div den
        r == num % den
    IN  IF 2 * r < den THEN q
        ELSE IF 2 * r > den THEN q + 1
        ELSE IF q % 2 = 0 THEN q ELSE q + 1

\* round(samples / SAMPLE_RATE, 3), in milliseconds; the quotient is taken
\* over `parts` equal parts (time_per_word).
RoundMs(samples_times_parts, parts) ==
    RoundHalfEven(samples_times_parts * MS_PER_S, SAMPLE_RATE * parts)

\* -------------------------------------------------------------------- texts
\* A text is a sequence of tokens; the token " " is white space, any other
\* token is a run of non-blank characters.

SPACE == " "

\* str.strip()
RECURSIVE LStrip(_)
LStrip(text) ==
    IF text # <<>> /\ Head(text) = SPACE THEN LStrip(Tail(text)) ELSE text

RECURSIVE RStrip(_)
RStrip(text) ==
    IF text # <<>> /\ text[Len(text)] = SPACE
    THEN RStrip(SubSeq(text, 1, Len(text) - 1))
    ELSE text

Strip(text) == RStrip(LStrip(text))

\* str.split(): the maximal runs of non-blank tokens, in order
RECURSIVE SplitFrom(_, _, _)
SplitFrom(text, word, done) ==
    IF text = <<>>
    THEN IF word = <<>> THEN done ELSE Append(done, word)
    ELSE IF Head(text) = SPACE
         THEN SplitFrom(Tail(text), <<>>,
                        IF word = <<>> THEN done ELSE Append(done, word))
         ELSE SplitFrom(Tail(text), Append(word, Head(text)), done)

Split(text) == SplitFrom(text, <<>>, <<>>)

\* ' '.join(texts)
RECURSIVE Join(_)
Join(texts) ==
    IF texts = <<>> THEN <<>>
    ELSE IF Len(texts) = 1 THEN texts[1]
    ELSE texts[1] \o <<SPACE>> \o Join(Tail(texts))

\* what _run_inference returns
TEXT_EMPTY == <<>>
TEXT_SPEECH == <<"Hi">>
TEXT_PROCESSING_ERROR == <<"[audio", SPACE, "processing", SPACE, "error]">>

\* How one inference call ends:
\*   "speech", "silence"  the model transcribes (to a word, to nothing)
\*   "engine_error_loud", "engine_error_quiet"
\*                        transcribe_file raises; _run_inference falls back on
\*                        the energy of the segment
\*   "tensor_error"       transcribe_segment raises outside _run_inference
\*                        (tensor conversion, device transfer, autocast)
Outcomes ==
    {"speech", "silence", "engine_error_loud", "engine_error_quiet", "tensor_error"}

_run_inference(outcome) ==
    CASE outcome = "speech" -> TEXT_SPEECH
      [] outcome = "silence" -> TEXT_EMPTY
      [] outcome = "engine_error_loud" -> TEXT_PROCESSING_ERROR
      [] OTHER -> TEXT_EMPTY

\* ------------------------------------------------------------------- events
\* One record shape for every outbound message; a key the message does not
\* carry has the value of Event below.

Event(type) ==
    [type |-> type, segment_id |-> NoId, text |-> <<>>, is_final |-> FALSE,
     words |-> <<>>, duration |-> 0, error |-> "", final_transcript |-> <<>>,
     total_segments |-> 0, total_duration |-> 0]

\* ---------------------------------------------------------------- Segmenter

\* AudioProcessor.__init__
AudioProcessorInit ==
    [target_sample_rate |-> SAMPLE_RATE,
     vad_threshold |-> VAD_THRESHOLD,
     silence_duration_ms |-> SILENCE_DURATION_MS,
     silence_chunks |-> SILENCE_DURATION_MS \div CHUNK_DURATION_MS,
     max_segment_samples |->
         (SAMPLE_RATE * MaxSegmentChunks * CHUNK_DURATION_MS) \div MS_PER_S,
     current_segment |-> 0,
     silence_counter |-> 0]

\* AudioProcessor._resample: torchaudio yields ceil(n * target / source) samples
_resample(ap, samples, source_rate) ==
    IF source_rate = ap.target_sample_rate THEN samples
    ELSE CeilDiv(samples * ap.target_sample_rate, source_rate)

\* _detect_voice_activity with >= for >
_detect_voice_activity_ge(ap, samples, energy) ==
    samples > 0 /\ energy >= ap.vad_threshold

\* AudioProcessor._detect_voice_activity: the RMS of an empty chunk is NaN,
\* which compares False
_detect_voice_activity(ap, samples, energy) ==
    samples > 0 /\ energy > ap.vad_threshold

\* process_chunk that decodes a chunk of an odd byte count without its last
\* byte instead of raising
process_chunk_ignores_odd(ap, chunk) ==
    LET n == IF SAMPLE_RATE # ap.target_sample_rate
             THEN _resample(ap, chunk.samples, SAMPLE_RATE)
             ELSE chunk.samples
        has_voice == _detect_voice_activity(ap, n, chunk.energy)
        seg == ap.current_segment + n
        forced == seg >= ap.max_segment_samples
        counter == IF forced THEN ap.silence_counter
                   ELSE IF has_voice THEN 0
                   ELSE ap.silence_counter + 1
        is_end == forced \/ (~has_voice /\ counter >= ap.silence_chunks /\ seg > 0)
    IN  [ap |-> [ap EXCEPT !.current_segment = seg, !.silence_counter = counter],
         raised |-> FALSE, is_end |-> is_end, forced |-> forced,
         has_voice |-> has_voice]

\* process_chunk without the forced cutoff
process_chunk_no_cutoff(ap, chunk) ==
    IF chunk.odd
    THEN [ap |-> ap, raised |-> TRUE, is_end |-> FALSE, forced |-> FALSE,
          has_voice |-> FALSE]
    ELSE
    LET n == IF SAMPLE_RATE # ap.target_sample_rate
             THEN _resample(ap, chunk.samples, SAMPLE_RATE)
             ELSE chunk.samples
        has_voice == _detect_voice_activity(ap, n, chunk.energy)
        seg == ap.current_segment + n
        counter == IF has_voice THEN 0 ELSE ap.silence_counter + 1
        is_end == ~has_voice /\ counter >= ap.silence_chunks /\ seg > 0
    IN  [ap |-> [ap EXCEPT !.current_segment = seg, !.silence_counter = counter],
         raised |-> FALSE, is_end |-> is_end, forced |-> FALSE,
         has_voice |-> has_voice]

\* AudioProcessor.process_chunk(audio_data) with sample_rate=16000, dtype=int16.
\* chunk = [samples, energy, odd]; odd: the byte count is odd, np.frombuffer
\* raises before anything is buffered.
process_chunk(ap, chunk) ==
    IF chunk.odd
    THEN [ap |-> ap, raised |-> TRUE, is_end |-> FALSE, forced |-> FALSE,
          has_voice |-> FALSE]
    ELSE
    LET n == IF SAMPLE_RATE # ap.target_sample_rate
             THEN _resample(ap, chunk.samples, SAMPLE_RATE)
             ELSE chunk.samples
        has_voice == _detect_voice_activity(ap, n, chunk.energy)
        seg == ap.current_segment + n
        forced == seg >= ap.max_segment_samples
        counter == IF forced THEN ap.silence_counter
                   ELSE IF has_voice THEN 0
                   ELSE ap.silence_counter + 1
        is_end == forced \/ (~has_voice /\ counter >= ap.silence_chunks /\ seg > 0)
    IN  [ap |-> [ap EXCEPT !.current_segment = seg, !.silence_counter = counter],
         raised |-> FALSE, is_end |-> is_end, forced |-> forced,
         has_voice |-> has_voice]

\* get_segment that hands out the buffer without clearing it
get_segment_keeps_buffer(ap) ==
    IF ap.current_segment = 0
    THEN [ap |-> ap, segment |-> NoId]
    ELSE [ap |-> [ap EXCEPT !.silence_counter = 0],
          segment |-> ap.current_segment]

\* get_segment that leaves the silence counter as it is
get_segment_keeps_counter(ap) ==
    IF ap.current_segment = 0
    THEN [ap |-> ap, segment |-> NoId]
    ELSE [ap |-> [ap EXCEPT !.current_segment = 0],
          segment |-> ap.current_segment]

\* AudioProcessor.get_segment: segment = NoId stands for None
get_segment(ap) ==
    IF ap.current_segment = 0
    THEN [ap |-> ap, segment |-> NoId]
    ELSE [ap |-> [ap EXCEPT !.current_segment = 0, !.silence_counter = 0],
          segment |-> ap.current_segment]

\* reset that puts the configured settings back to their defaults as well
AudioProcessorReset_restores_defaults(ap) == AudioProcessorInit

\* AudioProcessor.reset
AudioProcessorReset(ap) ==
    [ap EXCEPT !.current_segment = 0, !.silence_counter = 0]

\* ---------------------------------------------------- Transcription Session

\* TranscriptionStream.__init__: current_time_offset is kept in samples
\* (seconds * SAMPLE_RATE)
TranscriptionStreamInit ==
    [segment_id |-> 0,
     partial_transcript |-> <<>>,
     final_transcripts |-> <<>>,
     current_time_offset |-> 0]

\* reset that leaves the running time offset as it is
TranscriptionStreamReset_keeps_offset(ts) ==
    [ts EXCEPT !.segment_id = 0,
               !.partial_transcript = <<>>,
               !.final_transcripts = <<>>]

\* TranscriptionStream.reset
TranscriptionStreamReset(ts) ==
    [ts EXCEPT !.segment_id = 0,
               !.partial_transcript = <<>>,
               !.final_transcripts = <<>>,
               !.current_time_offset = 0]

\* the word timings of _process_transcription: word j of n starts at
\* offset + j * duration / n
WordTimings(offset, samples, word_list) ==
    LET n == Len(word_list)
    IN  [j \in 1..n |->
            [word |-> word_list[j],
             start |-> RoundMs(offset * n + (j - 1) * samples, n),
             end |-> RoundMs(offset * n + j * samples, n)]]

\* _process_transcription that gives a segment id to final results only
_process_transcription_id_on_final(ts, text, samples, is_final) ==
    LET word_list == IF text # <<>> THEN Split(Strip(text)) ELSE <<>>
        words == IF word_list # <<>>
                 THEN WordTimings(ts.current_time_offset, samples, word_list)
                 ELSE <<>>
    IN  [Event("transcription") EXCEPT
            !.segment_id = IF is_final THEN ts.segment_id ELSE NoId,
            !.text = text,
            !.is_final = is_final,
            !.words = words,
            !.duration = RoundMs(samples, 1)]

\* _process_transcription that aligns words for final results only
_process_transcription_words_on_final(ts, text, samples, is_final) ==
    LET word_list == IF text # <<>> THEN Split(Strip(text)) ELSE <<>>
        words == IF word_list # <<>> /\ is_final
                 THEN WordTimings(ts.current_time_offset, samples, word_list)
                 ELSE <<>>
    IN  [Event("transcription") EXCEPT
            !.segment_id = ts.segment_id,
            !.text = text,
            !.is_final = is_final,
            !.words = words,
            !.duration = RoundMs(samples, 1)]

\* TranscriptionStream._process_transcription
_process_transcription(ts, text, samples, is_final) ==
    LET word_list == IF text # <<>> THEN Split(Strip(text)) ELSE <<>>
        words == IF word_list # <<>>
                 THEN WordTimings(ts.current_time_offset, samples, word_list)
                 ELSE <<>>
    IN  [Event("transcription") EXCEPT
            !.segment_id = ts.segment_id,
            !.text = text,
            !.is_final = is_final,
            !.words = words,
            !.duration = RoundMs(samples, 1)]

\* TranscriptionStream._error_result
_error_result(ts, error_message) ==
    [Event("error") EXCEPT !.error = error_message, !.segment_id = ts.segment_id]

\* transcribe_segment that advances the segment counter after partials too
transcribe_segment_counts_partials(ts, samples, is_final, outcome) ==
    IF outcome = "tensor_error"
    THEN [ts |-> ts, result |-> _error_result(ts, "transcription")]
    ELSE
    LET transcription == _run_inference(outcome)
        result == _process_transcription(ts, transcription, samples, is_final)
    IN  [ts |-> IF is_final
                THEN [ts EXCEPT
                        !.final_transcripts = Append(@, result.text),
                        !.current_time_offset = @ + samples,
                        !.segment_id = @ + 1]
                ELSE [ts EXCEPT !.partial_transcript = result.text,
                                !.segment_id = @ + 1],
         result |-> result]

\* transcribe_segment that appends each partial text to the one before
transcribe_segment_appends_partial(ts, samples, is_final, outcome) ==
    IF outcome = "tensor_error"
    THEN [ts |-> ts, result |-> _error_result(ts, "transcription")]
    ELSE
    LET transcription == _run_inference(outcome)
        result == _process_transcription(ts, transcription, samples, is_final)
    IN  [ts |-> IF is_final
                THEN [ts EXCEPT
                        !.final_transcripts = Append(@, result.text),
                        !.current_time_offset = @ + samples,
                        !.segment_id = @ + 1]
                ELSE [ts EXCEPT !.partial_transcript = @ \o result.text],
         result |-> result]

\* transcribe_segment that advances the time offset after partials too
transcribe_segment_offset_on_partial(ts, samples, is_final, outcome) ==
    IF outcome = "tensor_error"
    THEN [ts |-> ts, result |-> _error_result(ts, "transcription")]
    ELSE
    LET transcription == _run_inference(outcome)
        result == _process_transcription(ts, transcription, samples, is_final)
    IN  [ts |-> IF is_final
                THEN [ts EXCEPT
                        !.final_transcripts = Append(@, result.text),
                        !.current_time_offset = @ + samples,
                        !.segment_id = @ + 1]
                ELSE [ts EXCEPT !.partial_transcript = result.text,
                                !.current_time_offset = @ + samples],
         result |-> result]

\* TranscriptionStream.transcribe_segment(audio_segment, 16000, is_final):
\* the session after the call and the result it returns
transcribe_segment(ts, samples, is_final, outcome) ==
    IF outcome = "tensor_error"
    THEN [ts |-> ts, result |-> _error_result(ts, "transcription")]
    ELSE
    LET transcription == _run_inference(outcome)
        result == _process_transcription(ts, transcription, samples, is_final)
    IN  [ts |-> IF is_final
                THEN [ts EXCEPT
                        !.final_transcripts = Append(@, result.text),
                        !.current_time_offset = @ + samples,
                        !.segment_id = @ + 1]
                ELSE [ts EXCEPT !.partial_transcript = result.text],
         result |-> result]

\* TranscriptionStream.get_full_transcript
get_full_transcript(ts) ==
    LET full_text == Join(ts.final_transcripts)
    IN  Strip(IF ts.partial_transcript # <<>>
              THEN full_text \o <<SPACE>> \o ts.partial_transcript
              ELSE full_text)

\* ---------------------------------------------------------- Session Manager
\* A session S = [ap, ts, st, sent]: the connection_states entry of the
\* client (audio_processor, transcription_stream and the scalar fields) and
\* the messages sent while the current frame is handled.

\* the connection_states entry connect() creates
ConnectionStateInit ==
    [is_recording |-> FALSE, total_segments |-> 0, total_audio_duration |-> 0]

\* WebSocketHandler.send_message
send_message(S, message) == [S EXCEPT !.sent = Append(@, message)]

\* WebSocketHandler.send_error
send_error(S, error) == send_message(S, [Event("error") EXCEPT !.error = error])

\* _handle_audio_data that sends nothing for a segment whose call failed
_handle_audio_data_silent_on_error(S, chunk, outcome) ==
    IF ~S.st.is_recording THEN S
    ELSE
    LET p == process_chunk(S.ap, chunk)
    IN  IF p.raised THEN send_error(S, "Audio processing failed")
        ELSE IF p.is_end
        THEN LET g == get_segment(p.ap)
             IN  IF g.segment # NoId /\ g.segment > 0
                 THEN LET t == transcribe_segment(S.ts, g.segment, TRUE, outcome)
                          S1 == [S EXCEPT
                                   !.ap = g.ap,
                                   !.ts = t.ts,
                                   !.st.total_segments = @ + 1,
                                   !.st.total_audio_duration = @ + g.segment]
                      IN  IF t.result.type = "error" THEN S1
                          ELSE send_message(S1, t.result)
                 ELSE [S EXCEPT !.ap = g.ap]
        ELSE IF p.ap.current_segment > PARTIAL_MIN_SAMPLES
        THEN LET t == transcribe_segment(S.ts, p.ap.current_segment, FALSE, outcome)
             IN  send_message([S EXCEPT !.ap = p.ap, !.ts = t.ts],
                              [t.result EXCEPT !.type = "partial"])
        ELSE [S EXCEPT !.ap = p.ap]

\* _handle_audio_data whose partial takes the buffer with get_segment
_handle_audio_data_partial_flushes(S, chunk, outcome) ==
    IF ~S.st.is_recording THEN S
    ELSE
    LET p == process_chunk(S.ap, chunk)
    IN  IF p.raised THEN send_error(S, "Audio processing failed")
        ELSE IF p.is_end
        THEN LET g == get_segment(p.ap)
             IN  IF g.segment # NoId /\ g.segment > 0
                 THEN LET t == transcribe_segment(S.ts, g.segment, TRUE, outcome)
                      IN  send_message(
                            [S EXCEPT
                               !.ap = g.ap,
                               !.ts = t.ts,
                               !.st.total_segments = @ + 1,
                               !.st.total_audio_duration = @ + g.segment],
                            t.result)
                 ELSE [S EXCEPT !.ap = g.ap]
        ELSE IF p.ap.current_segment > PARTIAL_MIN_SAMPLES
        THEN LET g == get_segment(p.ap)
                 t == transcribe_segment(S.ts, g.segment, FALSE, outcome)
             IN  send_message([S EXCEPT !.ap = g.ap, !.ts = t.ts],
                              [t.result EXCEPT !.type = "partial"])
        ELSE [S EXCEPT !.ap = p.ap]

\* WebSocketHandler._handle_audio_data
_handle_audio_data(S, chunk, outcome) ==
    IF ~S.st.is_recording THEN S
    ELSE
    LET p == process_chunk(S.ap, chunk)
    IN  IF p.raised THEN send_error(S, "Audio processing failed")
        ELSE IF p.is_end
        THEN LET g == get_segment(p.ap)
             IN  IF g.segment # NoId /\ g.segment > 0
                 THEN LET t == transcribe_segment(S.ts, g.segment, TRUE, outcome)
                      IN  send_message(
                            [S EXCEPT
                               !.ap = g.ap,
                               !.ts = t.ts,
                               !.st.total_segments = @ + 1,
                               !.st.total_audio_duration = @ + g.segment],
                            t.result)
                 ELSE [S EXCEPT !.ap = g.ap]
        ELSE IF p.ap.current_segment > PARTIAL_MIN_SAMPLES
        THEN LET t == transcribe_segment(S.ts, p.ap.current_segment, FALSE, outcome)
             IN  send_message([S EXCEPT !.ap = p.ap, !.ts = t.ts],
                              [t.result EXCEPT !.type = "partial"])
        ELSE [S EXCEPT !.ap = p.ap]

\* _start_recording that keeps the Transcription Session as it is
_start_recording_keeps_session(S) ==
    send_message(
        [S EXCEPT !.ap = AudioProcessorReset(@),
                  !.st.is_recording = TRUE],
        Event("recording_started"))

\* WebSocketHandler._start_recording
_start_recording(S) ==
    send_message(
        [S EXCEPT !.ap = AudioProcessorReset(@),
                  !.ts = TranscriptionStreamReset(@),
                  !.st.is_recording = TRUE],
        Event("recording_started"))

\* _stop_recording that drops the buffered audio instead of transcribing it
_stop_recording_no_flush(S, outcome) ==
    LET g == get_segment(S.ap)
        S1 == [S EXCEPT !.st.is_recording = FALSE, !.ap = g.ap]
    IN  send_message(S1,
            [Event("recording_stopped") EXCEPT
                !.final_transcript = get_full_transcript(S1.ts),
                !.total_duration = S1.st.total_audio_duration,
                !.total_segments = S1.st.total_segments])

\* _stop_recording that reports recording_stopped before it flushes the buffer
_stop_recording_stopped_first(S, outcome) ==
    LET g == get_segment(S.ap)
        S1 == [S EXCEPT !.st.is_recording = FALSE, !.ap = g.ap]
        S2 == send_message(S1,
                [Event("recording_stopped") EXCEPT
                    !.final_transcript = get_full_transcript(S1.ts),
                    !.total_duration = S1.st.total_audio_duration,
                    !.total_segments = S1.st.total_segments])
    IN  IF g.segment # NoId /\ g.segment > 0
        THEN LET t == transcribe_segment(S2.ts, g.segment, TRUE, outcome)
             IN  send_message([S2 EXCEPT !.ts = t.ts], t.result)
        ELSE S2

\* _stop_recording that transcribes whatever get_segment returns, an empty
\* buffer included
_stop_recording_flushes_empty(S, outcome) ==
    LET g == get_segment(S.ap)
        S1 == [S EXCEPT !.st.is_recording = FALSE, !.ap = g.ap]
        t == transcribe_segment(S1.ts, Max(g.segment, 0), TRUE, outcome)
        S2 == send_message([S1 EXCEPT !.ts = t.ts], t.result)
    IN  send_message(S2,
            [Event("recording_stopped") EXCEPT
                !.final_transcript = get_full_transcript(S2.ts),
                !.total_duration = S2.st.total_audio_duration,
                !.total_segments = S2.st.total_segments])

\* WebSocketHandler._stop_recording
_stop_recording(S, outcome) ==
    LET g == get_segment(S.ap)
        S1 == [S EXCEPT !.st.is_recording = FALSE, !.ap = g.ap]
        S2 == IF g.segment # NoId /\ g.segment > 0
              THEN LET t == transcribe_segment(S1.ts, g.segment, TRUE, outcome)
                   IN  send_message([S1 EXCEPT !.ts = t.ts], t.result)
              ELSE S1
    IN  send_message(S2,
            [Event("recording_stopped") EXCEPT
                !.final_transcript = get_full_transcript(S2.ts),
                !.total_duration = S2.st.total_audio_duration,
                !.total_segments = S2.st.total_segments])

\* a key a configure message does not carry
Absent == 0 - 1

\* WebSocketHandler._configure_stream
_configure_stream(S, config) ==
    send_message(
        [S EXCEPT
           !.ap.target_sample_rate =
               IF config.sample_rate # Absent THEN config.sample_rate ELSE @,
           !.ap.vad_threshold =
               IF config.vad_threshold # Absent THEN config.vad_threshold ELSE @,
           !.ap.silence_duration_ms =
               IF config.silence_duration # Absent THEN config.silence_duration ELSE @],
        Event("configured"))

\* _handle_control_message that answers an unknown type with an error event
_handle_control_message_error_on_unknown(S, data, outcome) ==
    IF data.parse = "invalid" THEN send_error(S, "Invalid JSON")
    ELSE CASE data.type = "start_recording" -> _start_recording(S)
           [] data.type = "stop_recording" -> _stop_recording(S, outcome)
           [] data.type = "configure" -> _configure_stream(S, data.config)
           [] data.type = "ping" -> send_message(S, Event("pong"))
           [] OTHER -> send_error(S, "Unknown message type")

\* _handle_control_message that leaves a ping unanswered
_handle_control_message_silent_ping(S, data, outcome) ==
    IF data.parse = "invalid" THEN send_error(S, "Invalid JSON")
    ELSE CASE data.type = "start_recording" -> _start_recording(S)
           [] data.type = "stop_recording" -> _stop_recording(S, outcome)
           [] data.type = "configure" -> _configure_stream(S, data.config)
           [] OTHER -> S

\* WebSocketHandler._handle_control_message; data = [parse, type, config] is
\* what json.loads makes of the message: parse = "invalid" when it raises
\* JSONDecodeError, else type is data.get('type') and config the message's
\* other keys
_handle_control_message(S, data, outcome) ==
    IF data.parse = "invalid" THEN send_error(S, "Invalid JSON")
    ELSE CASE data.type = "start_recording" -> _start_recording(S)
           [] data.type = "stop_recording" -> _stop_recording(S, outcome)
           [] data.type = "configure" -> _configure_stream(S, data.config)
           [] data.type = "ping" -> send_message(S, Event("pong"))
           [] OTHER -> S

\* WebSocketHandler.handle_message(message): message = [kind, brace, data,
\* chunk].  brace: the first byte is "{"; data: what json.loads makes of the
\* bytes (parse = "undecodable" when they are no UTF-8: a UnicodeDecodeError,
\* which handle_message itself catches); chunk: the bytes read as PCM.  kind,
\* the frame kind the server received, is not passed on by the endpoint.
handle_message(S, message, outcome) ==
    IF message.brace
    THEN IF message.data.parse = "undecodable"
         THEN send_error(S, "undecodable")
         ELSE _handle_control_message(S, message.data, outcome)
    ELSE _handle_audio_data(S, message.chunk, outcome)

\* ------------------------------------------------------------------- inputs

\* RMS energies of a chunk, in thousandths of full scale: digital silence and
\* a full-scale signal
Energies == {0, 1000}

\* PCM chunks of an even byte count with the given sample counts, and one of
\* an odd byte count
ChunksOf(sizes) ==
    [samples : sizes, energy : Energies, odd : {FALSE}]
    \cup {[samples |-> 0, energy |-> 0, odd |-> TRUE]}

\* the chunks of a client that sends short chunks
ShortChunks == ChunksOf(0..MaxChunkSamples)

\* the chunks of a client that sends long chunks (or empty ones)
LongChunks == ChunksOf({0, LongChunkSamples})

NoChunk == [samples |-> 0, energy |-> 0, odd |-> FALSE]

NoConfig ==
    [sample_rate |-> Absent, vad_threshold |-> Absent, silence_duration |-> Absent]

\* the values a configure message sets
Configs ==
    {[NoConfig EXCEPT !.vad_threshold = v] : v \in {VAD_THRESHOLD, 1000}}

Command(type, config) == [parse |-> "ok", type |-> type, config |-> config]

NoData == [parse |-> "invalid", type |-> "", config |-> NoConfig]

\* a binary frame: PCM audio
AudioFrame(chunk) ==
    [kind |-> "bytes", brace |-> FALSE, data |-> NoData, chunk |-> chunk]

\* a binary frame whose first byte is 0x7B: PCM audio that is no JSON
BraceAudioFrame(chunk, parse) ==
    [kind |-> "bytes", brace |-> TRUE,
     data |-> [NoData EXCEPT !.parse = parse], chunk |-> chunk]

\* a text frame holding a JSON object
ControlFrame(data) ==
    [kind |-> "text", brace |-> TRUE, data |-> data, chunk |-> NoChunk]

\* a text frame that does not start with "{"
PlainTextFrame(chunk) ==
    [kind |-> "text", brace |-> FALSE, data |-> NoData, chunk |-> chunk]

\* what data.get('type') gives for a message that is none of the commands:
\* another string, or None for a message without the key
UnknownTypes == {"unknown", "None"}

StartRecordingFrame == ControlFrame(Command("start_recording", NoConfig))
StopRecordingFrame == ControlFrame(Command("stop_recording", NoConfig))
ConfigureFrame(config) == ControlFrame(Command("configure", config))

\* -------------------------------------------------------------------- state

VARIABLES
    audio_processor,        \* connection_states[client_id]['audio_processor']
    transcription_stream,   \* connection_states[client_id]['transcription_stream']
    state,                  \* the scalar fields of connection_states[client_id]
    sent,                   \* the messages sent while handling the last frame
    last,                   \* the last frame handled, and is_recording before it
    history,                \* what the client has seen since start_recording
    script,                 \* the position of a scripted client in its script
    conn,                   \* the transport and the endpoint's coroutine
    active_connections,     \* WebSocketHandler.active_connections
    connection_states,      \* WebSocketHandler.connection_states
    websockets,             \* each connection's websocket and coroutine
    step,                   \* the last step of the server: its kind, its connection
    riva                    \* a run of the Riva client's audio generator

server_vars == <<active_connections, connection_states, websockets, step>>

vars ==
    <<audio_processor, transcription_stream, state, sent, last, history, script,
      conn, active_connections, connection_states, websockets, step, riva>>

Session ==
    [ap |-> audio_processor, ts |-> transcription_stream, st |-> state,
     sent |-> <<>>]

NoScript ==
    [phase |-> "", voiced |-> 0, silent |-> 0, boundaries |-> 0,
     forced |-> FALSE, since_flush |-> 0, cut_after |-> 0, empty |-> FALSE,
     partial_seen |-> FALSE, final_texts |-> <<>>, partial_text |-> <<>>,
     fed |-> 0, cuts |-> 0]

\* The connection as the endpoint's coroutine sees it:
\*   transport     "open" until the client goes away, then "closed"
\*   client_state  the toolkit's record of the connection: "disconnected" once
\*                 receive() has handed out the disconnect message
\*   loop          where the coroutine is: at "receive", "in_call" (inside an
\*                 inference call), "hung" (inside one that never returns),
\*                 "done" (after the finally block)
\*   pending       the frame whose handling made the call
\*   outcome       how the inference call of the last frame ended, "" if none
\*   active        client_id is in active_connections
\*   registered    client_id is in connection_states
ConnInit ==
    [transport |-> "open", client_state |-> "connected", loop |-> "receive",
     pending |-> AudioFrame(NoChunk), outcome |-> "",
     active |-> TRUE, registered |-> TRUE]

\* The Riva client before stream_transcribe is called: no generator runs
NoStream ==
    [pc |-> "idle", chunk_size |-> 0, audio |-> <<>>, audio_iterator |-> <<>>,
     buffer |-> <<>>, yielded |-> <<>>, total_audio_samples |-> 0]

\* The connections a server holds at once, and none of them
Connections == {"A", "B"}

NoConnection == ""

\* the uuid4 the endpoint draws for a connection that supplies no client_id
Uuid(c) == IF c = "A" THEN "uuid-A" ELSE "uuid-B"

\* websocket.query_params.get('client_id', str(uuid.uuid4())): a client_id
\* of the client's choosing ("x", open to every client) or the uuid
SuppliedIds(c) == {"x", Uuid(c)}

ClientIds == UNION {SuppliedIds(c) : c \in Connections}

NoFrame == AudioFrame(NoChunk)

\* A websocket and the coroutine of the endpoint that serves it:
\*   client_id          the key the endpoint uses for it in the two tables
\*   loop               "new" before the endpoint has run, "receive" at the
\*                      loop's receive(), "in_call" inside an inference call,
\*                      "done" after the endpoint has returned
\*   transport          "open" until the client goes away, then "broken"
\*   pending            the frame whose handling made the call
\*   accepted           websocket.accept() has succeeded
\*   first              the type of the first event the client received
\*   connection_events  how many connection events the client received
\*   send_failed        a send_json to it has raised
WebSocketInit ==
    [client_id |-> "", loop |-> "new", transport |-> "open",
     pending |-> NoFrame, accepted |-> FALSE, first |-> "",
     connection_events |-> 0, send_failed |-> FALSE]

\* One connection: WebSocketHandler.connect, after its connection message.
\* The server's tables: WebSocketHandler.__init__.
Init ==
    /\ audio_processor = AudioProcessorInit
    /\ transcription_stream = TranscriptionStreamInit
    /\ state = ConnectionStateInit
    /\ sent = <<>>
    /\ last = [kind |-> "none", brace |-> FALSE, type |-> "",
               was_recording |-> FALSE, empty |-> FALSE, odd |-> FALSE]
    /\ history = [finals |-> 0, finals_ms |-> 0, failed |-> FALSE]
    /\ script = NoScript
    /\ conn = ConnInit
    /\ active_connections = [client_id \in ClientIds |-> NoConnection]
    /\ connection_states = [client_id \in ClientIds |-> <<>>]
    /\ websockets = [c \in Connections |-> WebSocketInit]
    /\ step = [kind |-> "none", conn |-> NoConnection]
    /\ riva = NoStream

WithinBounds(S) ==
    /\ S.ts.segment_id <= MaxSegments
    /\ S.st.total_segments <= MaxTotalSegments
    /\ S.ap.silence_counter <= MaxSilenceCounter

\* does handling the message reach an inference call
Transcribes(message) ==
    IF message.brace
    THEN /\ message.data.parse = "ok"
         /\ message.data.type = "stop_recording"
         /\ audio_processor.current_segment > 0
    ELSE /\ state.is_recording
         /\ LET p == process_chunk(audio_processor, message.chunk)
            IN  /\ ~p.raised
                /\ \/ p.is_end
                   \/ p.ap.current_segment > PARTIAL_MIN_SAMPLES

\* the frame goes to the audio path and holds no sample (and no stray byte)
IsEmptyAudio(message) ==
    ~message.brace /\ message.chunk.samples = 0 /\ ~message.chunk.odd

\* the frame goes to the audio path and its byte count is odd
IsOddAudio(message) == ~message.brace /\ message.chunk.odd

IsFinalEvent(e) == e.type = "transcription" /\ e.is_final

\* the final transcription events among the messages
RECURSIVE Finals(_)
Finals(messages) ==
    IF messages = <<>> THEN <<>>
    ELSE IF IsFinalEvent(Head(messages))
         THEN <<Head(messages)>> \o Finals(Tail(messages))
         ELSE Finals(Tail(messages))

RECURSIVE SumDuration(_)
SumDuration(messages) ==
    IF messages = <<>> THEN 0
    ELSE Head(messages).duration + SumDuration(Tail(messages))

\* what the client counts from the events it receives: the final events of
\* the recording, their durations, and whether a segment failed;
\* recording_started starts a new count
Observe(h, messages) ==
    IF \E i \in 1..Len(messages) : messages[i].type = "recording_started"
    THEN [finals |-> 0, finals_ms |-> 0, failed |-> FALSE]
    ELSE [finals |-> h.finals + Len(Finals(messages)),
          finals_ms |-> h.finals_ms + SumDuration(Finals(messages)),
          failed |-> \/ h.failed
                     \/ \E i \in 1..Len(messages) :
                           /\ messages[i].type = "error"
                           /\ messages[i].segment_id # NoId]

\* the endpoint's loop body: one frame received and handled; outcome is how
\* the inference call of the frame ends, when it makes one
Receive(message, outcome) ==
    \E S \in {handle_message(Session, message, outcome)} :
        /\ WithinBounds(S)
        /\ audio_processor' = S.ap
        /\ transcription_stream' = S.ts
        /\ state' = S.st
        /\ sent' = S.sent
        /\ last' = [kind |-> message.kind, brace |-> message.brace,
                    type |-> IF message.brace /\ message.data.parse = "ok"
                             THEN message.data.type ELSE "",
                    was_recording |-> state.is_recording,
                    empty |-> IsEmptyAudio(message), odd |-> IsOddAudio(message)]
        /\ history' = Observe(history, S.sent)
        /\ UNCHANGED <<conn, server_vars, riva>>

\* a frame handled with each way its inference call can end, if it makes one
ReceiveAny(message, outcomes) ==
    IF Transcribes(message)
    THEN \E outcome \in outcomes : Receive(message, outcome)
    ELSE Receive(message, "silence")

\* ------------------------------------------------- Spec: the whole protocol
\* Every kind of frame, for a client that sends long chunks.

\* how the inference call of an audio frame ends; the engine's fallback is
\* reached by the call that stop_recording makes
AudioOutcomes == {"speech", "silence", "tensor_error"}

ReceiveAudio ==
    /\ \E chunk \in LongChunks : ReceiveAny(AudioFrame(chunk), AudioOutcomes)
    /\ UNCHANGED script

ReceiveBraceAudio ==
    /\ \E chunk \in LongChunks, parse \in {"invalid", "undecodable"} :
          /\ chunk.samples > 0
          /\ ReceiveAny(BraceAudioFrame(chunk, parse), AudioOutcomes)
    /\ UNCHANGED script

ReceivePlainText ==
    /\ \E chunk \in LongChunks :
          /\ chunk.energy > 0 \/ chunk.odd
          /\ ReceiveAny(PlainTextFrame(chunk), AudioOutcomes)
    /\ UNCHANGED script

ReceiveStartRecording ==
    /\ ReceiveAny(StartRecordingFrame, Outcomes)
    /\ UNCHANGED script

ReceiveStopRecording ==
    /\ ReceiveAny(StopRecordingFrame, Outcomes)
    /\ UNCHANGED script

ReceiveConfigure ==
    /\ \E config \in Configs : ReceiveAny(ConfigureFrame(config), Outcomes)
    /\ UNCHANGED script

ReceivePing ==
    /\ ReceiveAny(ControlFrame(Command("ping", NoConfig)), Outcomes)
    /\ UNCHANGED script

ReceiveUnknownType ==
    /\ \E type \in UnknownTypes :
          ReceiveAny(ControlFrame(Command(type, NoConfig)), Outcomes)
    /\ UNCHANGED script

ReceiveInvalidJson ==
    /\ ReceiveAny(ControlFrame(NoData), Outcomes)
    /\ UNCHANGED script

Next ==
    \/ ReceiveAudio
    \/ ReceiveBraceAudio
    \/ ReceivePlainText
    \/ ReceiveStartRecording
    \/ ReceiveStopRecording
    \/ ReceiveConfigure
    \/ ReceivePing
    \/ ReceiveUnknownType
    \/ ReceiveInvalidJson

Spec == Init /\ [][Next]_vars

\* ------------------------------- SegmenterSpec: the Segmenter under the handler
\* A client that sends short chunks of every size and energy, starts, stops
\* and configures; the engine transcribes every segment.  start_recording is
\* sent until the connection has finalized a segment.

SegStartRecording ==
    /\ state.total_segments = 0
    /\ transcription_stream.segment_id = 0
    /\ ReceiveAny(StartRecordingFrame, {"speech"})
    /\ UNCHANGED script

SegStopRecording ==
    /\ ReceiveAny(StopRecordingFrame, {"speech"})
    /\ UNCHANGED script

SegConfigure ==
    /\ \E config \in Configs : ReceiveAny(ConfigureFrame(config), {"speech"})
    /\ UNCHANGED script

SegAudio ==
    /\ \E chunk \in ShortChunks : ReceiveAny(AudioFrame(chunk), {"speech"})
    /\ UNCHANGED script

SegNext ==
    \/ SegStartRecording
    \/ SegStopRecording
    \/ SegConfigure
    \/ SegAudio

SegmenterSpec == Init /\ [][SegNext]_vars

\* ---------------------------------------- ScriptSpec: a client with a script
\* The client may set the VAD threshold to 1.0, then sends start_recording,
\* full-scale chunks, then chunks of digital silence, then stop_recording.
\* The engine transcribes every segment, to a word or to nothing.  script
\* is the client's own count of what it sent and of what came back.

ScriptOutcomes == {"speech", "silence"}

Texts(messages) == [i \in 1..Len(messages) |-> messages[i].text]

\* the text of the last partial event among the messages, else the one before
LatestPartial(text, messages) ==
    LET partials == {i \in 1..Len(messages) : messages[i].type = "partial"}
    IN  IF partials = {} THEN text
        ELSE messages[CHOOSE i \in partials : \A j \in partials : j <= i].text

ScriptConfigure ==
    /\ script.phase = ""
    /\ audio_processor.vad_threshold # 1000
    /\ ReceiveAny(ConfigureFrame([NoConfig EXCEPT !.vad_threshold = 1000]),
                  ScriptOutcomes)
    /\ UNCHANGED script

\* a silence duration two chunk durations shorter than the default
ShorterSilenceMs == SILENCE_DURATION_MS - 2 * CHUNK_DURATION_MS

\* the client sets the silence duration before it starts recording
ScriptConfigureSilence ==
    /\ script.phase = ""
    /\ audio_processor.silence_duration_ms = SILENCE_DURATION_MS
    /\ ReceiveAny(ConfigureFrame([NoConfig EXCEPT
                                    !.silence_duration = ShorterSilenceMs]),
                  ScriptOutcomes)
    /\ UNCHANGED script

ScriptStart ==
    /\ script.phase = ""
    /\ ReceiveAny(StartRecordingFrame, ScriptOutcomes)
    /\ script' = [script EXCEPT !.phase = "started"]

\* one chunk fed: what the Segmenter reports for it is what the handler acts on
ScriptFeed(chunk, run_continues) ==
    /\ ReceiveAny(AudioFrame(chunk), ScriptOutcomes)
    /\ \E p \in {process_chunk(audio_processor, chunk)} :
           script' =
             [script EXCEPT
                !.boundaries = (IF run_continues THEN @ ELSE 0)
                               + (IF p.is_end THEN 1 ELSE 0),
                !.forced = (run_continues /\ @) \/ p.forced,
                !.since_flush = IF p.is_end THEN 0 ELSE @ + 1,
                !.cut_after = IF p.is_end THEN script.since_flush + 1 ELSE 0,
                !.empty = @ \/ chunk.samples = 0,
                !.partial_seen =
                    @ \/ \E i \in 1..Len(sent') : sent'[i].type = "partial",
                !.final_texts = @ \o Texts(Finals(sent')),
                !.partial_text = LatestPartial(@, sent'),
                !.fed = @ + chunk.samples,
                !.cuts = IF p.is_end THEN @ + 1 ELSE @,
                !.phase = IF chunk.energy > 0 THEN "voiced" ELSE "silent",
                !.voiced = IF chunk.energy > 0 THEN @ + 1 ELSE @,
                !.silent = IF chunk.energy > 0 THEN 0 ELSE @ + 1]

ScriptVoiced ==
    /\ script.phase \in {"started", "voiced"}
    /\ script.voiced < MaxScriptVoiced
    /\ \E samples \in 1..MaxChunkSamples :
          ScriptFeed([samples |-> samples, energy |-> 1000, odd |-> FALSE], FALSE)

\* a chunk of the default chunk duration
NominalChunkSamples == (SAMPLE_RATE * CHUNK_DURATION_MS) \div MS_PER_S

\* silent chunks are empty or of the default length
ScriptSilent ==
    /\ script.phase \in {"voiced", "silent"}
    /\ script.silent < MaxScriptSilent
    /\ \E samples \in {0, NominalChunkSamples} :
          ScriptFeed([samples |-> samples, energy |-> 0, odd |-> FALSE], TRUE)

ScriptStop ==
    /\ script.phase \in {"voiced", "silent"}
    /\ ReceiveAny(StopRecordingFrame, ScriptOutcomes)
    /\ script' = [script EXCEPT !.phase = "stopped",
                                !.final_texts = @ \o Texts(Finals(sent'))]

ScriptNext ==
    \/ ScriptConfigure
    \/ ScriptConfigureSilence
    \/ ScriptStart
    \/ ScriptVoiced
    \/ ScriptSilent
    \/ ScriptStop

ScriptSpec == Init /\ [][ScriptNext]_vars

\* ------------------------------ LifecycleSpec: calls, hangs and disconnects
\* The endpoint's coroutine with its inference calls as steps of their own:
\* a frame whose handling reaches transcribe_segment leaves the coroutine
\* inside the call until the engine returns, and the client may go away at
\* any time.  The client sends start_recording, stop_recording and voiced
\* long chunks.

LcFrames ==
    {StartRecordingFrame, StopRecordingFrame,
     AudioFrame([samples |-> LongChunkSamples, energy |-> 1000, odd |-> FALSE])}

\* the ways a call ends other than with a transcription by the engine
Failures == {"engine_error_loud", "engine_error_quiet", "tensor_error"}

\* the handler's effects reach the state when its call returns; what it sends
\* on a closed transport is lost: send_json raises, send_message swallows the
\* exception and drops the connection from active_connections
Handled(S, outcome) ==
    /\ audio_processor' = S.ap
    /\ transcription_stream' = S.ts
    /\ state' = S.st
    /\ sent' = IF conn.transport = "open" THEN S.sent ELSE <<>>
    /\ history' = Observe(history, sent')
    /\ conn' = [conn EXCEPT
                  !.loop = "receive",
                  !.pending = AudioFrame(NoChunk),
                  !.outcome = outcome,
                  !.active = @ /\ (conn.transport = "open" \/ S.sent = <<>>)]

\* websocket.receive() returns a frame and handle_message is called with it
LcReceive ==
    /\ conn.loop = "receive"
    /\ conn.transport = "open"
    /\ \E message \in LcFrames :
          /\ \A outcome \in Outcomes :
                WithinBounds(handle_message(Session, message, outcome))
          /\ last' = [kind |-> message.kind, brace |-> message.brace,
                      type |-> IF message.brace THEN message.data.type ELSE "",
                      was_recording |-> state.is_recording,
                      empty |-> IsEmptyAudio(message), odd |-> IsOddAudio(message)]
          /\ IF Transcribes(message)
             THEN /\ conn' = [conn EXCEPT !.loop = "in_call",
                                          !.pending = message,
                                          !.outcome = ""]
                  /\ sent' = <<>>
                  /\ UNCHANGED <<audio_processor, transcription_stream, state,
                                 history>>
             ELSE \E S \in {handle_message(Session, message, "silence")} :
                      Handled(S, "")
    /\ UNCHANGED <<script, server_vars, riva>>

\* the inference call returns and the handler runs to its end
LcReturn ==
    /\ conn.loop = "in_call"
    /\ \E outcome \in Outcomes :
          \E S \in {handle_message(Session, conn.pending, outcome)} :
              Handled(S, outcome)
    /\ UNCHANGED <<last, script, server_vars, riva>>

\* the engine does not return: nothing bounds the call, and the coroutine
\* stays inside it
LcEngineHangs ==
    /\ conn.loop = "in_call"
    /\ conn' = [conn EXCEPT !.loop = "hung"]
    /\ UNCHANGED <<audio_processor, transcription_stream, state, sent, last,
                   history, script, server_vars, riva>>

\* the client goes away
LcDisconnect ==
    /\ conn.transport = "open"
    /\ conn.loop # "done"
    /\ conn' = [conn EXCEPT !.transport = "closed"]
    /\ UNCHANGED <<audio_processor, transcription_stream, state, sent, last,
                   history, script, server_vars, riva>>

\* websocket.receive() hands out the disconnect message: it holds neither
\* "bytes" nor "text", so the loop body does nothing and the loop goes on
LcReceiveDisconnectMessage ==
    /\ conn.loop = "receive"
    /\ conn.transport = "closed"
    /\ conn.client_state = "connected"
    /\ conn' = [conn EXCEPT !.client_state = "disconnected", !.outcome = ""]
    /\ sent' = <<>>
    /\ UNCHANGED <<audio_processor, transcription_stream, state, last, history,
                   script, server_vars, riva>>

\* websocket.receive() after the disconnect message raises RuntimeError: the
\* loop's except clause calls send_error, whose send fails inside
\* send_message, nothing is raised, no break is reached and the loop goes on
LcReceiveRaises ==
    /\ conn.loop = "receive"
    /\ conn.client_state = "disconnected"
    /\ conn' = [conn EXCEPT !.active = FALSE, !.outcome = ""]
    /\ sent' = <<>>
    /\ UNCHANGED <<audio_processor, transcription_stream, state, last, history,
                   script, server_vars, riva>>

\* the server cancels the coroutine while it awaits receive(): the finally
\* block calls WebSocketHandler.disconnect
LcShutdown ==
    /\ conn.loop = "receive"
    /\ conn' = [conn EXCEPT !.loop = "done", !.active = FALSE,
                            !.registered = FALSE, !.outcome = ""]
    /\ sent' = <<>>
    /\ UNCHANGED <<audio_processor, transcription_stream, state, last, history,
                   script, server_vars, riva>>

\* the steps of the endpoint's loop itself
LcLoop ==
    \/ LcReceive
    \/ LcReturn
    \/ LcReceiveDisconnectMessage
    \/ LcReceiveRaises

LcNext ==
    \/ LcReceive
    \/ LcReturn
    \/ LcEngineHangs
    \/ LcDisconnect
    \/ LcReceiveDisconnectMessage
    \/ LcReceiveRaises
    \/ LcShutdown

LifecycleSpec == Init /\ [][LcNext]_vars

\* ------------------------------- ServerSpec: two connections, one handler
\* Two clients connect to the server; both endpoints are served (the one of
\* rnnt-server-websocket.py works on the handler's two tables, the one of
\* rnnt-https-server.py never reaches them).  The coroutines of all
\* connections share one event loop (uvicorn.run with a single process): a
\* coroutine runs until it awaits something that suspends it, and
\* transcribe_segment awaits nothing, so from the start of an inference call
\* to its return no other coroutine runs.  Every call ends in a transcription.
\* A client sends start_recording, ping and voiced long chunks, and may go
\* away at any time; what the loop does on receive() after that is left to
\* LifecycleSpec, here the coroutine of such a connection only ends by
\* cancellation.

SrvFrames ==
    {StartRecordingFrame, ControlFrame(Command("ping", NoConfig)),
     AudioFrame([samples |-> LongChunkSamples, energy |-> 1000, odd |-> FALSE])}

\* the connection_states entry that connect creates
NewSession ==
    [ap |-> AudioProcessorInit, ts |-> TranscriptionStreamInit,
     st |-> ConnectionStateInit]

\* the entry of a client_id as the handlers work on it
SessionOf(client_id) ==
    [ap |-> connection_states[client_id][1].ap,
     ts |-> connection_states[client_id][1].ts,
     st |-> connection_states[client_id][1].st,
     sent |-> <<>>]

\* does handling the message on session S reach an inference call
TranscribesIn(S, message) ==
    IF message.brace
    THEN /\ message.data.parse = "ok"
         /\ message.data.type = "stop_recording"
         /\ S.ap.current_segment > 0
    ELSE /\ S.st.is_recording
         /\ LET p == process_chunk(S.ap, message.chunk)
            IN  /\ ~p.raised
                /\ \/ p.is_end
                   \/ p.ap.current_segment > PARTIAL_MIN_SAMPLES

\* handle_message for a client_id without a connection_states entry: every
\* handler that reads the entry returns at once, ping and a JSON error do not
\* read it
handle_message_no_state(message) ==
    IF ~message.brace THEN <<>>
    ELSE IF message.data.parse # "ok"
    THEN <<[Event("error") EXCEPT !.error = "Invalid JSON"]>>
    ELSE IF message.data.type = "ping" THEN <<Event("pong")>>
    ELSE <<>>

\* websocket.send_json for each of the messages: the client receives them
\* while the transport is open, else the send raises
Deliver(w, messages) ==
    IF messages = <<>> THEN w
    ELSE IF w.transport = "open"
    THEN [w EXCEPT
            !.first = IF @ = "" THEN messages[1].type ELSE @,
            !.connection_events =
                @ + Cardinality({i \in 1..Len(messages) :
                                    messages[i].type = "connection"})]
    ELSE [w EXCEPT !.send_failed = TRUE]

\* send_message's except branch: the client_id whose handle is the websocket
\* is deleted from active_connections, and nothing else
DropHandle(handles, c) ==
    [client_id \in ClientIds |->
        IF handles[client_id] = c THEN NoConnection ELSE handles[client_id]]

\* send_message for each of the messages sent to connection c
SendAll(c, w, messages, handles) ==
    /\ websockets' = [websockets EXCEPT ![c] = Deliver(w, messages)]
    /\ active_connections' =
          IF messages # <<>> /\ w.transport # "open"
          THEN DropHandle(handles, c)
          ELSE handles

\* WebSocketHandler.disconnect: both tables lose the client_id
disconnect(table, client_id, none) == [table EXCEPT ![client_id] = none]

\* an endpoint that starts a task for every frame it receives
Runnable_task_per_frame(c) ==
    websockets[c].loop \in {"receive", "in_call"}

\* the coroutine of connection c is at the loop's receive() and the event
\* loop is free to resume it: no coroutine is inside an inference call
Runnable(c) ==
    /\ websockets[c].loop = "receive"
    /\ \A d \in Connections : websockets[d].loop # "in_call"

\* nothing runs on the event loop
EventLoopFree == \A d \in Connections : websockets[d].loop # "in_call"

NoSingleConnectionStep ==
    UNCHANGED <<audio_processor, transcription_stream, state, sent, last,
                history, script, conn, riva>>

\* websocket_endpoint up to its loop: the client_id is read from the query
\* string and WebSocketHandler.connect accepts, fills both tables and sends
\* the connection event
SrvConnect(c, client_id) ==
    /\ websockets[c].loop = "new"
    /\ websockets[c].transport = "open"
    /\ EventLoopFree
    /\ connection_states' = [connection_states EXCEPT ![client_id] = <<NewSession>>]
    /\ SendAll(c, [websockets[c] EXCEPT !.client_id = client_id,
                                        !.loop = "receive",
                                        !.accepted = TRUE],
               <<Event("connection")>>,
               [active_connections EXCEPT ![client_id] = c])
    /\ step' = [kind |-> "connect", conn |-> c]
    /\ NoSingleConnectionStep

\* websocket_endpoint when the client went away during the handshake:
\* websocket.accept() raises inside connect, the outer except clause logs it
\* and the finally block calls disconnect(client_id)
SrvConnectFails(c, client_id) ==
    /\ websockets[c].loop = "new"
    /\ websockets[c].transport = "broken"
    /\ EventLoopFree
    /\ active_connections' = disconnect(active_connections, client_id, NoConnection)
    /\ connection_states' = disconnect(connection_states, client_id, <<>>)
    /\ websockets' = [websockets EXCEPT ![c].client_id = client_id,
                                        ![c].loop = "done"]
    /\ step' = [kind |-> "connect_failed", conn |-> c]
    /\ NoSingleConnectionStep

\* websocket_transcribe of rnnt-https-server.py: it accepts, then calls
\* websocket_handler.handle_websocket, which WebSocketHandler does not have:
\* the AttributeError reaches the except clause, which closes the websocket
SrvTranscribeConnect(c, client_id) ==
    /\ websockets[c].loop = "new"
    /\ websockets[c].transport = "open"
    /\ EventLoopFree
    /\ websockets' = [websockets EXCEPT ![c].client_id = client_id,
                                        ![c].accepted = TRUE,
                                        ![c].transport = "broken",
                                        ![c].loop = "done"]
    /\ step' = [kind |-> "transcribe_connect", conn |-> c]
    /\ UNCHANGED <<active_connections, connection_states>>
    /\ NoSingleConnectionStep

\* the loop's receive() returns a frame and handle_message is called with
\* it; a handler that reaches transcribe_segment stays in the call
SrvHandle(c, message) ==
    /\ Runnable(c)
    /\ websockets[c].transport = "open"
    /\ step' = [kind |-> "receive", conn |-> c]
    /\ NoSingleConnectionStep
    /\ \E client_id \in {websockets[c].client_id} :
          IF connection_states[client_id] = <<>>
          THEN /\ SendAll(c, websockets[c], handle_message_no_state(message),
                          active_connections)
               /\ UNCHANGED connection_states
          ELSE \E S \in {handle_message(SessionOf(client_id), message, "speech")} :
                  /\ WithinBounds(S)
                  /\ IF TranscribesIn(SessionOf(client_id), message)
                     THEN /\ websockets' =
                                [websockets EXCEPT ![c].loop = "in_call",
                                                   ![c].pending = message]
                          /\ UNCHANGED <<active_connections, connection_states>>
                     ELSE /\ connection_states' =
                                [connection_states EXCEPT ![client_id] =
                                    <<[ap |-> S.ap, ts |-> S.ts, st |-> S.st]>>]
                          /\ SendAll(c, websockets[c], S.sent, active_connections)

SrvReceive == \E c \in Connections : \E message \in SrvFrames : SrvHandle(c, message)

\* the inference call returns and the handler runs to its end
SrvReturn ==
    \E c \in Connections :
        /\ websockets[c].loop = "in_call"
        /\ step' = [kind |-> "return", conn |-> c]
        /\ NoSingleConnectionStep
        /\ \E client_id \in {websockets[c].client_id} :
              \E S \in {handle_message(SessionOf(client_id),
                                       websockets[c].pending, "speech")} :
                  /\ connection_states' =
                        [connection_states EXCEPT ![client_id] =
                            <<[ap |-> S.ap, ts |-> S.ts, st |-> S.st]>>]
                  /\ SendAll(c, [websockets[c] EXCEPT !.loop = "receive",
                                                      !.pending = NoFrame],
                             S.sent, active_connections)

\* the client goes away
SrvClientGoesAway ==
    \E c \in Connections :
        /\ websockets[c].transport = "open"
        /\ websockets[c].loop # "done"
        /\ websockets' = [websockets EXCEPT ![c].transport = "broken"]
        /\ step' = [kind |-> "client_gone", conn |-> c]
        /\ UNCHANGED <<active_connections, connection_states>>
        /\ NoSingleConnectionStep

\* the server cancels the coroutine while it awaits receive(): the finally
\* block calls WebSocketHandler.disconnect(client_id)
SrvCancel ==
    \E c \in Connections :
        /\ Runnable(c)
        /\ active_connections' =
              disconnect(active_connections, websockets[c].client_id, NoConnection)
        /\ connection_states' =
              disconnect(connection_states, websockets[c].client_id, <<>>)
        /\ websockets' = [websockets EXCEPT ![c].loop = "done"]
        /\ step' = [kind |-> "cancel", conn |-> c]
        /\ NoSingleConnectionStep

SrvAccept ==
    \E c \in Connections : \E client_id \in SuppliedIds(c) : SrvConnect(c, client_id)

SrvAcceptFails ==
    \E c \in Connections : \E client_id \in SuppliedIds(c) : SrvConnectFails(c, client_id)

SrvTranscribeAccept ==
    \E c \in Connections : \E client_id \in SuppliedIds(c) : SrvTranscribeConnect(c, client_id)

SrvNext ==
    \/ SrvAccept
    \/ SrvAcceptFails
    \/ SrvTranscribeAccept
    \/ SrvReceive
    \/ SrvReturn
    \/ SrvClientGoesAway
    \/ SrvCancel

ServerSpec == Init /\ [][SrvNext]_vars

\* ------------------------ RivaSpec: the Riva client's audio generator
\* One run of RivaASRClient._audio_generator_with_retry over an audio
\* iterator.  The bytes of the stream are numbered 1, 2, 3, ... in the order
\* the iterator hands them out, so that a byte lost, repeated or out of place
\* shows.  riva holds
\*   pc                   "next" at the async for, "drain" inside the while
\*                        loop, "done" after the generator has returned
\*   chunk_size           config.chunk_size_bytes
\*   audio                every byte of the stream, in order
\*   audio_iterator       the chunks the iterator has still to hand out
\*   buffer               the bytearray
\*   yielded              the chunks yielded so far
\*   total_audio_samples  total_audio_duration * sample_rate

MaxInputChunks == 3
MaxInputChunkBytes == 3
MaxChunkSizeBytes == 3

RECURSIVE SumLen(_)
SumLen(lens) == IF lens = <<>> THEN 0 ELSE Head(lens) + SumLen(Tail(lens))

\* the stream 1, 2, 3, ... cut into chunks of the given lengths
ChunksOfLengths(lens) ==
    [i \in 1..Len(lens) |->
        [j \in 1..lens[i] |-> SumLen(SubSeq(lens, 1, i - 1)) + j]]

RECURSIVE Flatten(_)
Flatten(chunks) ==
    IF chunks = <<>> THEN <<>> ELSE Head(chunks) \o Flatten(Tail(chunks))

\* what the audio iterator may hand out: up to MaxInputChunks chunks, empty
\* ones among them
AudioIterators ==
    {ChunksOfLengths(lens) :
        lens \in UNION {[1..n -> 0..MaxInputChunkBytes] : n \in 0..MaxInputChunks}}

\* bytes(buffer[:chunk_size])
TakeChunk(buffer, chunk_size) == SubSeq(buffer, 1, chunk_size)

\* buffer[chunk_size:] that skips one byte more
DropChunk_skips_a_byte(buffer, chunk_size) ==
    SubSeq(buffer, chunk_size + 2, Len(buffer))

\* buffer[chunk_size:]
DropChunk(buffer, chunk_size) == SubSeq(buffer, chunk_size + 1, Len(buffer))

\* _audio_generator_with_retry is called: an empty bytearray, and
\* chunk_size_bytes as configured (a positive count)
RivaInit ==
    /\ audio_processor = AudioProcessorInit
    /\ transcription_stream = TranscriptionStreamInit
    /\ state = ConnectionStateInit
    /\ sent = <<>>
    /\ last = [kind |-> "none", brace |-> FALSE, type |-> "",
               was_recording |-> FALSE, empty |-> FALSE, odd |-> FALSE]
    /\ history = [finals |-> 0, finals_ms |-> 0, failed |-> FALSE]
    /\ script = NoScript
    /\ conn = ConnInit
    /\ active_connections = [client_id \in ClientIds |-> NoConnection]
    /\ connection_states = [client_id \in ClientIds |-> <<>>]
    /\ websockets = [c \in Connections |-> WebSocketInit]
    /\ step = [kind |-> "none", conn |-> NoConnection]
    /\ \E chunks \in AudioIterators, chunk_size \in 1..MaxChunkSizeBytes :
          riva = [pc |-> "next", chunk_size |-> chunk_size,
                  audio |-> Flatten(chunks), audio_iterator |-> chunks,
                  buffer |-> <<>>, yielded |-> <<>>, total_audio_samples |-> 0]

NoServerStep ==
    UNCHANGED <<audio_processor, transcription_stream, state, sent, last,
                history, script, conn, server_vars>>

\* async for audio_chunk in audio_iterator: buffer.extend(audio_chunk)
RivaExtend ==
    /\ riva.pc = "next"
    /\ riva.audio_iterator # <<>>
    /\ riva' = [riva EXCEPT !.buffer = @ \o Head(riva.audio_iterator),
                            !.audio_iterator = Tail(@),
                            !.pc = "drain"]
    /\ NoServerStep

\* one turn of the while loop: a chunk of chunk_size bytes is yielded and
\* cut off the buffer
RivaYieldChunk ==
    /\ riva.pc = "drain"
    /\ Len(riva.buffer) >= riva.chunk_size
    /\ riva' = [riva EXCEPT
                  !.yielded = Append(@, TakeChunk(riva.buffer, riva.chunk_size)),
                  !.buffer = DropChunk(@, riva.chunk_size),
                  !.total_audio_samples = @ + riva.chunk_size \div 2]
    /\ NoServerStep

\* the while loop ends: back to the async for
RivaNextChunk ==
    /\ riva.pc = "drain"
    /\ Len(riva.buffer) < riva.chunk_size
    /\ riva' = [riva EXCEPT !.pc = "next"]
    /\ NoServerStep

\* the iterator is exhausted: what is left in the buffer is yielded, if
\* anything is
RivaYieldRest ==
    /\ riva.pc = "next"
    /\ riva.audio_iterator = <<>>
    /\ riva' = [riva EXCEPT
                  !.yielded = IF riva.buffer # <<>> THEN Append(@, riva.buffer)
                              ELSE @,
                  !.total_audio_samples =
                      IF riva.buffer # <<>> THEN @ + Len(riva.buffer) \div 2
                      ELSE @,
                  !.pc = "done"]
    /\ NoServerStep

RivaNext ==
    \/ RivaExtend
    \/ RivaYieldChunk
    \/ RivaNextChunk
    \/ RivaYieldRest

RivaSpec == RivaInit /\ [][RivaNext]_vars

\* =================================================================== claims

\* the longest segment the Segmenter is configured for, as a duration in ms
MaxSegmentMs == RoundMs(audio_processor.max_segment_samples, 1)

DefaultVad == audio_processor.vad_threshold = VAD_THRESHOLD

\* ---------------------------------------------------------------------- C1
\* C1: between the handling of two frames the in-flight segment buffer never
\* holds more than max_segment_samples samples, whatever chunks, control
\* messages and flushes came before.
C1_InFlightWithinMax ==
    audio_processor.current_segment <= audio_processor.max_segment_samples

\* the forced cutoff has flushed a segment and the buffer starts afresh
C1_Witness ==
    /\ last.kind = "bytes"
    /\ last.was_recording
    /\ audio_processor.current_segment = 0
    /\ \E i \in 1..Len(sent) :
          IsFinalEvent(sent[i]) /\ sent[i].duration >= MaxSegmentMs

\* ---------------------------------------------------------------------- C2
\* C2: a recording fed only voiced chunks flushes, as its first final
\* segment, a segment of exactly max_segment_samples samples, and the buffer
\* is empty after that flush.
C2_FirstForcedSegmentExact ==
    (script.phase = "voiced" /\ DefaultVad) =>
        \A i \in 1..Len(sent) :
            (IsFinalEvent(sent[i]) /\ sent[i].segment_id = 0) =>
                /\ sent[i].duration = MaxSegmentMs
                /\ audio_processor.current_segment = 0

\* ---------------------------------------------------------------------- C3
\* C3 as claimed: after a voiced chunk, N consecutive silent chunks with
\* N * chunk duration >= silence duration yield exactly one boundary (stated
\* here for non-empty chunks and runs the forced cutoff does not fall in).
C3_ExactlyOneBoundary ==
    (/\ script.phase = "silent"
     /\ DefaultVad
     /\ ~script.empty
     /\ ~script.forced
     /\ script.silent * CHUNK_DURATION_MS >= SILENCE_DURATION_MS)
        => script.boundaries = 1

\* C3 as amended: after a voiced chunk that did not itself hit the forced
\* cutoff, and while no forced cutoff falls among them, N consecutive silent
\* chunks yield no boundary for N < silence_chunks and exactly one for
\* silence_chunks <= N < 2 * silence_chunks; non-empty silent chunks yield
\* one boundary at every silence_chunks-th chunk, so a second one at
\* N = 2 * silence_chunks.
C3_OneBoundaryPerSilenceChunks ==
    (script.phase = "silent" /\ DefaultVad /\ ~script.forced) =>
        LET n == script.silent
            k == audio_processor.silence_chunks
        IN  /\ n < k => script.boundaries = 0
            /\ (k <= n /\ n < 2 * k) => script.boundaries = 1
            /\ ~script.empty => script.boundaries = n \div k

\* the silence timeout has just cut the segment at the silence_chunks-th chunk
C3_Witness ==
    /\ script.phase = "silent"
    /\ DefaultVad
    /\ ~script.forced
    /\ script.silent = audio_processor.silence_chunks
    /\ script.boundaries = 1
    /\ \E i \in 1..Len(sent) : IsFinalEvent(sent[i])

\* ---------------------------------------------------------------------- C8
\* the scenario: default settings, 3 voiced chunks, then 6 silent chunks
C8_Scenario == DefaultVad /\ script.voiced = 3 /\ script.silent = 6

\* the scenario with chunks as the spec sizes them: none empty, and short
\* enough that no partial is due and the forced cutoff is not reached
C8_ShortChunks == ~script.empty /\ ~script.partial_seen /\ ~script.forced

C9_Streaming ==
    /\ audio_processor.vad_threshold = 1000
    /\ script.phase \in {"voiced", "silent"}

\* C9 as claimed: with the VAD threshold at 1.0 every final segment cut while
\* audio streams is a forced one of exactly max_segment_samples samples.
C9_OnlyForcedCutoffs ==
    C9_Streaming =>
        \A i \in 1..Len(sent) :
            IsFinalEvent(sent[i]) => sent[i].duration = MaxSegmentMs

\* C9 as amended: with the VAD threshold at 1.0 every chunk counts as silent
\* whatever its energy, so the silence timeout still cuts the stream: each
\* final segment cut while audio streams either holds at least
\* max_segment_samples samples (forced cutoff) or was cut by the silence
\* timeout at its silence_chunks-th chunk (later only after empty chunks).
C9_ThresholdOneSilencesAll ==
    C9_Streaming =>
        /\ audio_processor.silence_counter = script.since_flush
        /\ \A i \in 1..Len(sent) :
              IsFinalEvent(sent[i]) =>
                  \/ sent[i].duration >= MaxSegmentMs
                  \/ /\ script.cut_after >= audio_processor.silence_chunks
                     /\ ~script.empty =>
                            script.cut_after = audio_processor.silence_chunks

\* full-scale audio alone has been cut by the silence timeout
C9_Witness ==
    /\ C9_Streaming
    /\ script.phase = "voiced"
    /\ script.cut_after = audio_processor.silence_chunks
    /\ \E i \in 1..Len(sent) :
          IsFinalEvent(sent[i]) /\ sent[i].duration < MaxSegmentMs

\* ---------------------------------------------------------------------- C4
\* the final events among messages i.. of the frame just handled
FinalsFrom(i) == Finals(SubSeq(sent, i, Len(sent)))

\* C4: within one recording the final transcription events carry the
\* segment ids 0, 1, 2, ... in the order they are emitted: each final event
\* carries the number of final events emitted before it since
\* recording_started, whatever partials and failed segments came between.
C4_FinalIdsCountUp ==
    \A i \in 1..Len(sent) :
        IsFinalEvent(sent[i]) =>
            sent[i].segment_id = history.finals - Len(FinalsFrom(i))

\* the second final of a recording, after a partial and a failed segment
C4_Witness ==
    /\ \E i \in 1..Len(sent) : IsFinalEvent(sent[i]) /\ sent[i].segment_id = 1
    /\ transcription_stream.partial_transcript # <<>>
    /\ history.failed

C6_WordsStartAtElapsed ==
    /\ transcription_stream.current_time_offset * MS_PER_S
          = history.finals_ms * SAMPLE_RATE
    /\ \A i \in 1..Len(sent) :
          (IsFinalEvent(sent[i]) /\ sent[i].words # <<>>) =>
              sent[i].words[1].start
                  = history.finals_ms - SumDuration(FinalsFrom(i))

\* a final segment with words that starts late, a partial having come before
C6_Witness ==
    /\ \E i \in 1..Len(sent) :
          /\ IsFinalEvent(sent[i])
          /\ sent[i].segment_id = 1
          /\ sent[i].words # <<>>
          /\ sent[i].words[1].start > 0
    /\ transcription_stream.partial_transcript # <<>>

\* ---------------------------------------------------------------------- C7
\* the segments a session is given in this check
C7_Samples == {1, LongChunkSamples, 2 * LongChunkSamples}

\* C7: from every reachable state of the Transcription Session, reset()
\* followed by one transcribe_segment gives the event and the session state
\* that a freshly constructed session gives for the same segment, and a
\* second reset() changes nothing.
C7_ResetEqualsFresh ==
    LET r == TranscriptionStreamReset(transcription_stream)
    IN  /\ TranscriptionStreamReset(r) = r
        /\ \A samples \in C7_Samples, is_final \in BOOLEAN, outcome \in Outcomes :
              transcribe_segment(r, samples, is_final, outcome)
                  = transcribe_segment(TranscriptionStreamInit, samples,
                                       is_final, outcome)

\* a session with finals, a partial text and a running offset
C7_Witness ==
    /\ transcription_stream.segment_id = MaxSegments
    /\ transcription_stream.partial_transcript # <<>>
    /\ transcription_stream.current_time_offset > 0
    /\ transcription_stream.final_transcripts # <<>>

\* --------------------------------------------------------------------- C10
\* C10: a binary (audio) frame received while the session is not recording
\* produces no outbound event.
C10_IdleAudioIsSilent ==
    (last.kind = "bytes" /\ ~last.was_recording) => sent = <<>>

C12_UnparseableYieldsOneError ==
    (last.kind = "text" /\ last.type = "") =>
        (Len(sent) = 1 /\ sent[1].type = "error")

\* --------------------------------------------------------------------- C13
\* the errors the control path reports
ControlErrors == {"Invalid JSON", "undecodable"}

\* C13: frames are classified by their kind alone: a binary frame is never
\* answered as a control message that failed to parse, and a text frame
\* never feeds the audio path (no transcription, partial or audio error
\* comes of it, stop_recording's flush aside).
C13_ClassifiedByFrameKind ==
    /\ last.kind = "bytes" =>
          \A i \in 1..Len(sent) : sent[i].error \notin ControlErrors
    /\ (last.kind = "text" /\ last.type # "stop_recording") =>
          \A i \in 1..Len(sent) :
              /\ sent[i].type \notin {"transcription", "partial"}
              /\ sent[i].error # "Audio processing failed"

\* --------------------------------------------------------------------- C17
\* text occurs in transcript as a run of consecutive tokens
Includes(transcript, text) ==
    \E i \in 0..(Len(transcript) - Len(text)) :
        SubSeq(transcript, i + 1, i + Len(text)) = text

\* C17: stop_recording while recording with a non-empty buffer sends two
\* events, the event of the flushed segment and then recording_stopped.  The
\* segment's event carries the next segment id; when it is a final
\* transcription (the inference call did not fail) it covers the whole
\* buffer, its text is appended to the final transcripts and occurs in the
\* transcript of recording_stopped.  Afterwards the session is not recording
\* and the buffer is empty.
C17_StopFlushesThenStops ==
    [][(/\ last'.type = "stop_recording"
        /\ state.is_recording
        /\ audio_processor.current_segment > 0) =>
          /\ Len(sent') = 2
          /\ sent'[2].type = "recording_stopped"
          /\ sent'[1].type \in {"transcription", "error"}
          /\ sent'[1].segment_id = transcription_stream.segment_id
          /\ IsFinalEvent(sent'[1]) =>
                /\ sent'[1].duration = RoundMs(audio_processor.current_segment, 1)
                /\ transcription_stream'.final_transcripts
                      = Append(transcription_stream.final_transcripts, sent'[1].text)
                /\ Includes(sent'[2].final_transcript, sent'[1].text)
          /\ ~state'.is_recording
          /\ audio_processor'.current_segment = 0]_vars

\* a stop that flushed the second segment of a recording, with text
C17_Witness ==
    /\ last.type = "stop_recording"
    /\ last.was_recording
    /\ Len(sent) = 2
    /\ IsFinalEvent(sent[1])
    /\ sent[1].segment_id = 1
    /\ sent[1].text # <<>>
    /\ sent[2].type = "recording_stopped"
    /\ ~state.is_recording

\* --------------------------------------------------------------------- C18
\* C18: once start_recording is handled the session is recording, the
\* segment buffer is empty, the silence counter and the segment counter are
\* 0, there are no final transcripts and no partial text, the time offset is
\* 0, and the one event sent is recording_started.
C18_StartRecordingResets ==
    last.type = "start_recording" =>
        /\ state.is_recording
        /\ audio_processor.current_segment = 0
        /\ audio_processor.silence_counter = 0
        /\ transcription_stream.segment_id = 0
        /\ transcription_stream.final_transcripts = <<>>
        /\ transcription_stream.partial_transcript = <<>>
        /\ transcription_stream.current_time_offset = 0
        /\ sent = <<Event("recording_started")>>

\* start_recording handled while not recording, after an earlier recording
\* that produced segments
C18_Witness ==
    /\ last.type = "start_recording"
    /\ ~last.was_recording
    /\ state.total_segments > 0
    /\ state.is_recording

\* --------------------------------------------------------------------- C19
\* C19: in any state a ping is answered with exactly one pong, and the
\* recording flag, the segment buffer, the silence counter and the
\* Transcription Session are left as they were.
C19_PingPong ==
    [][last'.type = "ping" =>
          /\ sent' = <<Event("pong")>>
          /\ UNCHANGED <<audio_processor, transcription_stream, state>>]_vars

\* a ping in the middle of a recording, with audio buffered and silence
\* being counted
C19_Witness ==
    /\ last.type = "ping"
    /\ sent = <<Event("pong")>>
    /\ state.is_recording
    /\ audio_processor.current_segment > 0
    /\ audio_processor.silence_counter > 0
    /\ transcription_stream.partial_transcript # <<>>

\* --------------------------------------------------------------------- C14
\* C14: whenever the inference of a segment fails, the event sent for the
\* segment is an error event: every event that carries the segment's id
\* carries an error, and none of them is a transcription.
C14_FailureYieldsErrorEvent ==
    (conn.outcome \in Failures /\ conn.transport = "open") =>
        \A i \in 1..Len(sent) :
            sent[i].segment_id # NoId =>
                (sent[i].error # "" /\ sent[i].type # "transcription")

\* --------------------------------------------------------------------- C15
\* the call the coroutine is in transcribes a final segment
PendingIsFinal ==
    \/ conn.pending.brace
    \/ process_chunk(audio_processor, conn.pending.chunk).is_end

\* C15: when the inference of a final segment fails, nothing is appended to
\* the final transcripts, the segment counter and the time offset stay, and
\* the full transcript is what it was.
C15_FailedFinalLeavesTranscript ==
    [][(/\ conn.loop = "in_call"
        /\ PendingIsFinal
        /\ conn'.outcome \in Failures) =>
          /\ transcription_stream'.final_transcripts
                = transcription_stream.final_transcripts
          /\ transcription_stream'.segment_id = transcription_stream.segment_id
          /\ transcription_stream'.current_time_offset
                = transcription_stream.current_time_offset
          /\ get_full_transcript(transcription_stream')
                = get_full_transcript(transcription_stream)]_vars

\* --------------------------------------------------------------------- C16
\* C16: an inference call that does not return is ended by a timeout, so a
\* coroutine inside such a call always has a step of its loop left to take.
C16_CallsAreBounded ==
    conn.loop = "hung" => ENABLED <<LcLoop>>_vars

\* --------------------------------------------------------------------- C20
\* C20: once the client has gone away, the session's entries are removed
\* from the Session Manager, or the endpoint's loop still has a step to take
\* that gets it there: it is never left with the entries in place and
\* nothing more to do.
C20_DisconnectReleases ==
    conn.transport = "closed" =>
        (~conn.registered \/ ENABLED <<LcLoop>>_vars)

\* --------------------------------------------------------------------- C25
\* C25 as claimed: every partial event has an empty words list.
C25_PartialsCarryNoWords ==
    \A i \in 1..Len(sent) : sent[i].type = "partial" => sent[i].words = <<>>

\* the words of a text, as the word timings list them
WordsOf(words) == [j \in 1..Len(words) |-> words[j].word]

\* C25 as amended: words is populated on every result whose text holds a
\* word, partial or final alike: it lists the words of the text in order,
\* and the first starts at the running time offset.
C25_WordsFollowText ==
    \A i \in 1..Len(sent) :
        (sent[i].type \in {"partial", "transcription"} /\ sent[i].error = "") =>
            /\ WordsOf(sent[i].words) = Split(Strip(sent[i].text))
            /\ sent[i].words # <<>> =>
                  sent[i].words[1].start
                      = history.finals_ms
                        - (IF sent[i].is_final
                           THEN SumDuration(FinalsFrom(i))
                           ELSE 0)

\* a partial with text and word timings, after the first final
C25_Witness ==
    \E i \in 1..Len(sent) :
        /\ sent[i].type = "partial"
        /\ sent[i].text # <<>>
        /\ Len(sent[i].words) > 0
        /\ sent[i].words[1].start > 0

\* --------------------------------------------------------------------- C26
\* C26: an empty audio chunk received while recording is a no-op: the
\* segment buffer and the silence counter stay as they were and no event is
\* sent.
C26_EmptyChunkIsNoOp ==
    [][(last'.empty /\ state.is_recording) =>
          /\ audio_processor'.current_segment = audio_processor.current_segment
          /\ audio_processor'.silence_counter = audio_processor.silence_counter
          /\ sent' = <<>>]_vars

\* --------------------------------------------------------------------- C27
\* C27: no final transcription event is sent for a segment of no samples.
\* On an empty buffer get_segment returns None and stop_recording sends
\* recording_stopped alone and leaves the Transcription Session as it is;
\* a chunk for which the Segmenter reports a boundary leaves a non-empty
\* buffer to cut.
C27_NoZeroLengthFinal ==
    /\ \A i \in 1..Len(sent) : IsFinalEvent(sent[i]) => sent[i].duration > 0
    /\ \A chunk \in ShortChunks :
          chunk.odd \/ LET p == process_chunk(audio_processor, chunk)
                       IN  p.is_end => p.ap.current_segment > 0
    /\ audio_processor.current_segment = 0 =>
          /\ get_segment(audio_processor).segment = NoId
          /\ \A outcome \in Outcomes :
                LET S == _stop_recording(Session, outcome)
                IN  /\ S.ts = transcription_stream
                    /\ Len(S.sent) = 1
                    /\ S.sent[1].type = "recording_stopped"

\* stop_recording handled on an empty buffer, after a final segment
C27_Witness ==
    /\ last.type = "stop_recording"
    /\ last.was_recording
    /\ Len(sent) = 1
    /\ sent[1].type = "recording_stopped"
    /\ transcription_stream.segment_id > 0
    /\ audio_processor.current_segment = 0

\* --------------------------------------------------------------------- C28
\* C28: get_full_transcript is the texts of the final events so far, in the
\* order they were sent, joined by single spaces, then a space and the text
\* of the latest partial event when that text is not empty, the whole
\* stripped; the session keeps the latest partial text only.
C28_FullTranscript ==
    /\ transcription_stream.final_transcripts = script.final_texts
    /\ transcription_stream.partial_transcript = script.partial_text
    /\ get_full_transcript(transcription_stream)
         = Strip(IF script.partial_text = <<>>
                 THEN Join(script.final_texts)
                 ELSE Join(script.final_texts) \o <<SPACE>> \o script.partial_text)

\* two finalized texts and a partial text are in the transcript
C28_Witness ==
    /\ Len(script.final_texts) >= 2
    /\ script.final_texts[1] # <<>>
    /\ script.partial_text # <<>>
    /\ script.partial_seen
    /\ get_full_transcript(transcription_stream) # <<>>

\* --------------------------------------------------------------------- C30
\* C30 as claimed: once a configure message has changed the silence duration
\* to D, the run of silent chunks that follows a voiced chunk yields its
\* boundary at the round(D / chunk duration)-th silent chunk.
C30_BoundaryAtConfiguredCount ==
    (/\ script.phase = "silent"
     /\ DefaultVad
     /\ ~script.forced
     /\ ~script.empty
     /\ audio_processor.silence_duration_ms # SILENCE_DURATION_MS
     /\ script.silent
          = RoundHalfEven(audio_processor.silence_duration_ms, CHUNK_DURATION_MS))
        => script.boundaries = 1

\* the coroutine of the connection is in its loop
Live(c) == websockets[c].loop \in {"receive", "in_call"}

\* --------------------------------------------------------------------- C21
\* C21 as claimed: once a send to a connection has failed its session is
\* torn down: the connection_states entry of its client_id is gone.
C21_SendFailureTearsDown ==
    \A c \in Connections :
        (websockets[c].send_failed /\ Live(c)) =>
            connection_states[websockets[c].client_id] = <<>>

\* --------------------------------------------------------------------- C22
\* C22 as claimed: a step of one connection (its connect, the handling of
\* one of its frames, its disconnect) leaves the connection_states entry of
\* every other live connection as it is, whatever client_ids were supplied.
C22_OnlyOwnFrames ==
    [][\A a \in Connections :
          (/\ Live(a)
           /\ step'.conn # a
           /\ step'.kind \in {"connect", "connect_failed", "receive", "return",
                              "cancel"}) =>
              connection_states'[websockets[a].client_id]
                  = connection_states[websockets[a].client_id]]_vars

\* --------------------------------------------------------------------- C23
\* C23: within one connection frames are handled one at a time: the handling
\* of a frame starts only when the coroutine is at receive() with no frame
\* pending, and while a frame is inside its inference call the only step of
\* that connection's coroutine is the return of the call, which puts the
\* coroutine back at receive().
C23_OneFrameAtATime ==
    [][\A c \in Connections :
          /\ (step'.conn = c /\ step'.kind = "receive") =>
                /\ websockets[c].loop = "receive"
                /\ websockets[c].pending = NoFrame
          /\ (step'.conn = c /\ websockets[c].loop = "in_call") =>
                step'.kind \in {"return", "client_gone"}
          /\ (step'.conn = c /\ step'.kind = "return") =>
                /\ websockets[c].loop = "in_call"
                /\ websockets'[c].loop = "receive"
                /\ websockets'[c].pending = NoFrame]_vars

\* a frame is received on a connection whose earlier frame made an inference
\* call that has returned
C23_Witness ==
    \E c \in Connections :
        /\ step = [kind |-> "receive", conn |-> c]
        /\ connection_states[websockets[c].client_id] # <<>>
        /\ SessionOf(websockets[c].client_id).ts.partial_transcript # <<>>
        /\ websockets[c].loop = "receive"

\* --------------------------------------------------------------------- C24
\* C24 as claimed: while connection a is inside an inference call, a ping
\* arriving on another connection b that waits at receive() can be handled.
C24_OthersProgressDuringCall ==
    \A a, b \in Connections :
        (/\ a # b
         /\ websockets[a].loop = "in_call"
         /\ websockets[b].loop = "receive"
         /\ websockets[b].transport = "open") =>
            ENABLED SrvHandle(b, ControlFrame(Command("ping", NoConfig)))

\* --------------------------------------------------------------------- C29
\* C29 as claimed: a client whose connection was accepted has received
\* exactly one connection event, as its first event, and while its coroutine
\* is in its loop the connection_states entry of its client_id exists.
C29_OneConnectionEventFirst ==
    \A c \in Connections :
        websockets[c].accepted =>
            /\ websockets[c].connection_events = 1
            /\ websockets[c].first = "connection"
            /\ Live(c) => connection_states[websockets[c].client_id] # <<>>

\* --------------------------------------------------------------------- C31
\* C31: an audio frame of an odd byte count received while recording is
\* dropped: exactly one error event is sent, the Segmenter (buffer, silence
\* counter), the Transcription Session and the connection's counters stay as
\* they were, and the session is still recording.
C31_OddChunkDropped ==
    [][(last'.odd /\ state.is_recording) =>
          /\ Len(sent') = 1
          /\ sent'[1].type = "error"
          /\ sent'[1].error = "Audio processing failed"
          /\ audio_processor' = audio_processor
          /\ transcription_stream' = transcription_stream
          /\ state' = state
          /\ state'.is_recording]_vars

\* an odd chunk was answered with an error while audio was buffered
C31_Witness ==
    /\ last.odd
    /\ last.was_recording
    /\ Len(sent) = 1
    /\ sent[1].type = "error"
    /\ audio_processor.current_segment > 0
    /\ state.is_recording

\* --------------------------------------------------------------------- C32
\* C32: the handling of a chunk that sends a partial sends nothing else and
\* changes the session only by the chunk itself (its samples appended, the
\* silence counter zeroed or advanced by one) and by the partial text: the
\* partial covers the whole buffer, which a flush would still yield in full,
\* and the segment counter, the final transcripts, the time offset and the
\* connection's counters are as before.
C32_PartialIsNonDestructive ==
    [][(\E i \in 1..Len(sent') : sent'[i].type = "partial") =>
          /\ Len(sent') = 1
          /\ audio_processor'.current_segment >= audio_processor.current_segment
          /\ audio_processor'.current_segment > PARTIAL_MIN_SAMPLES
          /\ get_segment(audio_processor').segment = audio_processor'.current_segment
          /\ sent'[1].error = "" =>
                sent'[1].duration = RoundMs(audio_processor'.current_segment, 1)
          /\ audio_processor'.silence_counter
                \in {0, audio_processor.silence_counter + 1}
          /\ transcription_stream'.segment_id = transcription_stream.segment_id
          /\ transcription_stream'.final_transcripts
                = transcription_stream.final_transcripts
          /\ transcription_stream'.current_time_offset
                = transcription_stream.current_time_offset
          /\ state' = state]_vars

\* a partial was sent in a recording that already has a final segment
C32_Witness ==
    /\ Len(sent) = 1
    /\ sent[1].type = "partial"
    /\ sent[1].text # <<>>
    /\ transcription_stream.segment_id > 0
    /\ audio_processor.current_segment > PARTIAL_MIN_SAMPLES

\* --------------------------------------------------------------------- C33
\* C33: in a recording whose chunks all decode, the samples of the segments
\* flushed so far (the final events' durations) and the samples still in the
\* buffer add up to the samples of the chunks fed, one final segment was
\* flushed for each boundary the Segmenter reported, and after
\* stop_recording nothing is left in the buffer: no sample is lost or is in
\* two segments.
C33_SamplesConserved ==
    /\ script.phase \in {"voiced", "silent"} =>
          /\ RoundMs(script.fed, 1)
                = history.finals_ms + RoundMs(audio_processor.current_segment, 1)
          /\ history.finals = script.cuts
    /\ script.phase = "stopped" =>
          /\ RoundMs(script.fed, 1) = history.finals_ms
          /\ audio_processor.current_segment = 0
          /\ history.finals \in {script.cuts, script.cuts + 1}

\* a boundary cut one segment, stop_recording flushed a second one
C33_Witness ==
    /\ script.phase = "stopped"
    /\ script.cuts = 1
    /\ history.finals = 2
    /\ script.fed > audio_processor.max_segment_samples
    /\ \E i \in 1..Len(sent) : IsFinalEvent(sent[i]) /\ sent[i].duration > 0

\* --------------------------------------------------------------------- C34
\* C34: while the handling of a frame is inside its inference call no other
\* frame is taken and nothing is sent, so the events of a frame are sent
\* before those of the next; and the return of the call of an audio frame
\* for which the Segmenter reported a boundary sends exactly one event, a
\* final transcription or an error.
C34_EventsInInputOrder ==
    [][conn.loop = "in_call" =>
          /\ last' = last
          /\ conn'.pending \in {conn.pending, NoFrame}
          /\ conn'.loop = "in_call" => sent' = sent
          /\ (/\ conn'.loop = "receive"
              /\ conn.transport = "open"
              /\ ~conn.pending.brace
              /\ process_chunk(audio_processor, conn.pending.chunk).is_end) =>
                /\ Len(sent') = 1
                /\ \/ IsFinalEvent(sent'[1])
                   \/ sent'[1].type = "error"]_vars

\* the call of a boundary chunk has failed and its one event is the error
C34_Witness ==
    /\ conn.loop = "receive"
    /\ conn.transport = "open"
    /\ conn.outcome = "tensor_error"
    /\ last.kind = "bytes"
    /\ Len(sent) = 1
    /\ sent[1].type = "error"
    /\ audio_processor.current_segment = 0
    /\ state.total_segments > 0

\* --------------------------------------------------------------------- C35
\* C35 as claimed: whenever no message is being handled, the client_ids that
\* have a handle in active_connections are those that have an entry in
\* connection_states.
C35_TablesAgree ==
    EventLoopFree =>
        {client_id \in ClientIds : active_connections[client_id] # NoConnection}
            = {client_id \in ClientIds : connection_states[client_id] # <<>>}

\* --------------------------------------------------------------------- C36
\* C36 as claimed: between the handling of two frames a session that is not
\* recording has an empty segment buffer and a silence counter of 0, and a
\* stop_recording handled then sends recording_stopped alone.
C36_IdleSegmenterIsClean ==
    ~state.is_recording =>
        /\ audio_processor.current_segment = 0
        /\ audio_processor.silence_counter = 0
        /\ \A outcome \in Outcomes :
              LET S == _stop_recording(Session, outcome)
              IN  \A i \in 1..Len(S.sent) : S.sent[i].type = "recording_stopped"

\* --------------------------------------------------------------------- C37
\* C37 as claimed: the total_segments and total_duration of a
\* recording_stopped event are the number and the summed duration of the
\* final transcription events sent since the recording_started before it,
\* the one sent with it included.
C37_TotalsMatchFinals ==
    \A i \in 1..Len(sent) :
        sent[i].type = "recording_stopped" =>
            /\ sent[i].total_segments = history.finals
            /\ RoundMs(sent[i].total_duration, 1) = history.finals_ms

\* --------------------------------------------------------------------- C38
\* C38 as claimed: the final_transcript of recording_stopped is the texts of
\* the final transcription events of the recording, in order, joined by
\* spaces, and nothing else.
C38_FinalTranscriptIsFinals ==
    script.phase = "stopped" =>
        \A i \in 1..Len(sent) :
            sent[i].type = "recording_stopped" =>
                sent[i].final_transcript = Strip(Join(script.final_texts))

\* --------------------------------------------------------------------- C39
\* C39: a start_recording handled while the session is recording sends
\* recording_started and nothing else, leaves an empty buffer, a silence
\* counter of 0 and a Transcription Session as constructed, keeps the session
\* recording, and leaves the Segmenter's settings (VAD threshold, silence
\* duration and count, sample rate, maximum segment length) and the
\* connection's totals as they were.
C39_RestartDiscardsAudio ==
    [][(last'.type = "start_recording" /\ state.is_recording) =>
          /\ sent' = <<Event("recording_started")>>
          /\ audio_processor'
               = [audio_processor EXCEPT !.current_segment = 0,
                                         !.silence_counter = 0]
          /\ transcription_stream' = TranscriptionStreamInit
          /\ state' = state
          /\ state'.is_recording]_vars

\* a restart in mid-recording of a session whose VAD threshold was configured
\* and whose recording had a final segment
C39_Witness ==
    /\ last.type = "start_recording"
    /\ last.was_recording
    /\ audio_processor.vad_threshold # VAD_THRESHOLD
    /\ state.total_segments > 0
    /\ state.is_recording
    /\ audio_processor.current_segment = 0

\* --------------------------------------------------------------------- C40
\* C40: the chunks the generator has yielded, then what is in its buffer,
\* then what the iterator has still to hand out, are the bytes of the stream
\* in order; once it has returned the yielded chunks alone are the stream.
\* No yielded chunk is empty, and every yielded chunk has chunk_size bytes
\* except the last one of a generator that has returned, which may be
\* shorter.
C40_RechunkingPreservesStream ==
    /\ riva.pc \in {"next", "drain"} =>
          /\ Flatten(riva.yielded) \o riva.buffer \o Flatten(riva.audio_iterator)
                = riva.audio
          /\ \A i \in 1..Len(riva.yielded) :
                Len(riva.yielded[i]) = riva.chunk_size
    /\ riva.pc = "done" =>
          /\ Flatten(riva.yielded) = riva.audio
          /\ \A i \in 1..Len(riva.yielded) - 1 :
                Len(riva.yielded[i]) = riva.chunk_size
          /\ \A i \in 1..Len(riva.yielded) :
                Len(riva.yielded[i]) \in 1..riva.chunk_size

\* the generator has returned after whole chunks and a shorter last one, cut
\* from input chunks of other sizes, an empty one among them
C40_Witness ==
    /\ riva.pc = "done"
    /\ riva.chunk_size = 2
    /\ Len(riva.yielded) >= 3
    /\ Len(riva.yielded[Len(riva.yielded)]) < riva.chunk_size
    /\ Len(riva.audio) > 2 * riva.chunk_size

====
